---- MODULE Spec2Model ----
(***************************************************************************)
(* ModelZoo backend: the query-complexity orchestrator                     *)
(* (backend/app/orchestrator.py, backend/app/config.py) and the Azure      *)
(* OpenAI chat client with its high-tier -> low-tier fallback              *)
(* (backend/app/azure_client.py).                                          *)
(*                                                                         *)
(* Text is modelled by TLA+ strings; len, lower, strip, substring          *)
(* containment and the regular expressions of analyze_query are computed   *)
(* character by character on them.  An Optional[str] is a sequence of      *)
(* length 0 (None) or 1 (the string).                                      *)
(***************************************************************************)
EXTENDS Integers, Sequences, FiniteSets, TLC

VARIABLES
    \* ---- orchestrator call (orchestrator.py) ----
    opc,              \* position of the current orchestrator call
    query,            \* argument `query`
    preferred_model,  \* argument `preferred_model` (Optional[str])
    analysis,         \* the dict `analysis` of the call in progress
    selected,         \* model id returned by select_model (Optional)
    models,           \* QueryOrchestrator.models, the dict MODEL_CONFIGS
    complexity_keywords, \* QueryOrchestrator.complexity_keywords
    aux_arg,          \* argument of get_model_config / estimate_tokens
    aux_ret,          \* return value of an auxiliary operation
    memo,             \* an earlier analyze_query / select_model call and its result
    tasks,            \* frames of the callers running select_model concurrently
    hpc,              \* position of the request handler in progress
    request,          \* the ChatRequest (or the model_id path parameter) being served
    session,          \* id of the handler's local `session` (Optional)
    full_response,    \* chat_stream's local full_response
    events,           \* the events the response stream has emitted
    reply,            \* what the handler answered (Optional)
    db_sessions,      \* table chat_sessions: id -> row
    db_messages,      \* table messages: rows in timestamp order
    \* ---- chat client call (azure_client.py) ----
    cpc,              \* position of the current client call
    initialized,      \* AzureOpenAIClient._initialized
    mode,             \* "completion" (chat_completion) or "stream"
    req_model,        \* model_id the caller passed
    req_messages,     \* messages the caller passed
    req_stream,       \* the `stream` flag of chat_completion
    cur_model,        \* model_id of the chat_completion frame now running
    cur_messages,     \* messages of the chat_completion frame now running
    pending,          \* items the upstream stream has still to deliver
    attempts,         \* upstream create() calls made: <<[deployment, messages]>>
    upstream,         \* outcome of each create() call made so far
    chunks,           \* chunks yielded so far by chat_completion_stream
    result            \* what the call gave back to its caller

ovars == <<opc, query, preferred_model, analysis, selected,
           models, complexity_keywords, aux_arg, aux_ret, memo, tasks>>
cvars == <<cpc, initialized, mode, req_model, req_messages, req_stream,
           cur_model, cur_messages, pending, attempts, upstream, chunks, result>>
svars == <<hpc, request, session, full_response, events, reply,
           db_sessions, db_messages>>
vars == <<opc, query, preferred_model, analysis, selected,
          models, complexity_keywords, aux_arg, aux_ret, memo, tasks,
          hpc, request, session, full_response, events, reply,
          db_sessions, db_messages,
          cpc, initialized, mode, req_model, req_messages, req_stream,
          cur_model, cur_messages, pending, attempts, upstream, chunks, result>>

-----------------------------------------------------------------------------
(* Optional values *)
None == <<>>
Some(v) == <<v>>

-----------------------------------------------------------------------------
(* Python str primitives *)

UPPERCASE == "ABCDEFGHIJKLMNOPQRSTUVWXYZ"
LOWERCASE == "abcdefghijklmnopqrstuvwxyz"
DIGITS == "0123456789"

\* The grave accent U+0060 cannot be written inside a TLA+ string; the
\* character "^" stands for it in every text of this module.
BACKTICK == "^"
\* r'```'
FENCE == BACKTICK \o BACKTICK \o BACKTICK

CharAt(s, i) == SubSeq(s, i, i)

\* the characters of a string, as a set
Chars(alphabet) == {CharAt(alphabet, i) : i \in 1..Len(alphabet)}

UpperSet == Chars(UPPERCASE)
LowerSet == Chars(LOWERCASE)
DigitSet == Chars(DIGITS)

\* the lower-case letter of each upper-case letter
LowerOf ==
    [c \in UpperSet |->
        CharAt(LOWERCASE, CHOOSE i \in 1..Len(UPPERCASE) : CharAt(UPPERCASE, i) = c)]

LowerChar(c) == IF c \in UpperSet THEN LowerOf[c] ELSE c

\* str.lower()
RECURSIVE Lower(_)
Lower(s) ==
    IF Len(s) = 0 THEN s
    ELSE IF Len(s) = 1 THEN LowerChar(s)
    ELSE LET h == Len(s) \div 2
         IN  Lower(SubSeq(s, 1, h)) \o Lower(SubSeq(s, h + 1, Len(s)))

\* characters matched by \s and removed by str.strip()
IsSpace(c) == c \in {" ", "\t", "\n", "\r", "\f"}

\* characters matched by \w
IsWord(c) == c \in LowerSet \/ c \in UpperSet \/ c \in DigitSet \/ c = "_"

\* characters matched by \d
IsDigit(c) == c \in DigitSet

\* str.rstrip()
RECURSIVE RStrip(_)
RStrip(s) ==
    IF Len(s) = 0 THEN s
    ELSE IF Len(s) = 1 THEN (IF IsSpace(s) THEN "" ELSE s)
    ELSE LET h == Len(s) \div 2
             right == RStrip(SubSeq(s, h + 1, Len(s)))
         IN  IF right # "" THEN SubSeq(s, 1, h) \o right ELSE RStrip(SubSeq(s, 1, h))

\* str.lstrip()
RECURSIVE LStrip(_)
LStrip(s) ==
    IF Len(s) = 0 THEN s
    ELSE IF Len(s) = 1 THEN (IF IsSpace(s) THEN "" ELSE s)
    ELSE LET h == Len(s) \div 2
             left == LStrip(SubSeq(s, 1, h))
         IN  IF left # "" THEN left \o SubSeq(s, h + 1, Len(s)) ELSE LStrip(SubSeq(s, h + 1, Len(s)))

\* str.strip()
Strip(s) == LStrip(RStrip(s))

\* `sub in s` with `sub` starting at position i of s
MatchAt(s, sub, i) == i >= 1 /\ i + Len(sub) - 1 <= Len(s) /\ SubSeq(s, i, i + Len(sub) - 1) = sub

\* `sub in s`
Contains(s, sub) == \E i \in 1..(Len(s) - Len(sub) + 1) : MatchAt(s, sub, i)

\* str.count(c) for a single character c
Count(s, c) == Cardinality({i \in 1..Len(s) : CharAt(s, i) = c})

\* sep.join(seq)
RECURSIVE Join(_, _)
Join(seq, sep) ==
    IF Len(seq) = 0 THEN ""
    ELSE IF Len(seq) = 1 THEN seq[1]
    ELSE seq[1] \o sep \o Join(Tail(seq), sep)

\* seq[:n]
Take(seq, n) == SubSeq(seq, 1, IF Len(seq) < n THEN Len(seq) ELSE n)

-----------------------------------------------------------------------------
(* config.py *)

\* (cost_per_1k_tokens, a float no operation reads, is left out)
MODEL_CONFIGS ==
    [m \in {"gpt-4", "gpt-35-turbo"} |->
        IF m = "gpt-4"
        THEN [deployment_name |-> "gpt-4",
              display_name |-> "GPT-4",
              description |-> "Most capable model for complex reasoning and analysis",
              max_tokens |-> 8192,
              capabilities |-> <<"complex_reasoning", "code_generation", "analysis",
                                 "creative_writing">>,
              complexity_threshold |-> 4]
        ELSE [deployment_name |-> "gpt-35-turbo",
              display_name |-> "GPT-3.5 Turbo",
              description |-> "Fast and efficient for straightforward tasks",
              max_tokens |-> 4096,
              capabilities |-> <<"general_chat", "simple_code", "summarization",
                                 "translation">>,
              complexity_threshold |-> 2]]

COMPLEXITY_KEYWORDS ==
    [high |-> <<"analyze", "explain in detail", "compare", "contrast", "evaluate",
                "synthesize", "create a plan", "design", "architect", "optimize",
                "debug complex", "refactor", "implement algorithm">>,
     medium |-> <<"summarize", "describe", "list", "what is", "how does", "example",
                  "convert", "translate", "format", "write code">>,
     low |-> <<"hi", "hello", "thanks", "yes", "no", "ok", "bye">>]

-----------------------------------------------------------------------------
(* orchestrator.py: the regular expressions of analyze_query, as re.search  *)
(* decides them                                                             *)

\* r'<kw>\s+\w+'  (def, function, class)
ReKeywordSpaceWord(s, kw) ==
    \E i \in 1..Len(s) :
        /\ MatchAt(s, kw, i)
        /\ \E j \in (i + Len(kw) + 1)..Len(s) :
              /\ \A k \in (i + Len(kw))..(j - 1) : IsSpace(CharAt(s, k))
              /\ IsWord(CharAt(s, j))

\* r'import\s+'
ReImport(s) ==
    \E i \in 1..Len(s) :
        /\ MatchAt(s, "import", i)
        /\ i + 6 <= Len(s)
        /\ IsSpace(CharAt(s, i + 6))

\* r'from\s+\w+\s+import'
ReFromImport(s) ==
    \E i \in 1..Len(s) :
        /\ MatchAt(s, "from", i)
        /\ \E a \in (i + 5)..Len(s) :
              /\ \A k \in (i + 4)..(a - 1) : IsSpace(CharAt(s, k))
              /\ \E b \in (a + 1)..Len(s) :
                    /\ \A k \in a..(b - 1) : IsWord(CharAt(s, k))
                    /\ \E c \in (b + 1)..Len(s) :
                          /\ \A k \in b..(c - 1) : IsSpace(CharAt(s, k))
                          /\ MatchAt(s, "import", c)

\* r'\b<kw>\b'  (const, let): kw begins and ends with a word character
ReWholeWord(s, kw) ==
    \E i \in 1..Len(s) :
        /\ MatchAt(s, kw, i)
        /\ (i = 1 \/ ~IsWord(CharAt(s, i - 1)))
        /\ (i + Len(kw) - 1 = Len(s) \/ ~IsWord(CharAt(s, i + Len(kw))))

\* the list code_patterns, in order; any(re.search(pattern, query) ...)
code_patterns(s) ==
    \/ Contains(s, FENCE)
    \/ ReKeywordSpaceWord(s, "def")
    \/ ReKeywordSpaceWord(s, "function")
    \/ ReKeywordSpaceWord(s, "class")
    \/ ReImport(s)
    \/ ReFromImport(s)
    \/ Contains(s, "=>")
    \/ ReWholeWord(s, "const")
    \/ ReWholeWord(s, "let")

\* r'\d+\.\s+'
ReNumberedList(s) ==
    \E i \in 1..Len(s) :
        /\ IsDigit(CharAt(s, i))
        /\ i + 2 <= Len(s)
        /\ CharAt(s, i + 1) = "."
        /\ IsSpace(CharAt(s, i + 2))

-----------------------------------------------------------------------------
(* orchestrator.py: QueryOrchestrator *)

\* analysis["factors"].append(f) when cond
AppendIf(factors, cond, f) == IF cond THEN Append(factors, f) ELSE factors

\* length_score with inclusive thresholds
length_score_inclusive(query_length) ==
    IF query_length >= 1000 THEN 3
    ELSE IF query_length >= 500 THEN 2
    ELSE IF query_length >= 200 THEN 1
    ELSE 0

\* 1. Length Analysis
length_score(query_length) ==
    IF query_length > 1000 THEN 3
    ELSE IF query_length > 500 THEN 2
    ELSE IF query_length > 200 THEN 1
    ELSE 0

length_factors(query_length) ==
    IF query_length > 1000 THEN <<"Very long query (>1000 chars)">>
    ELSE IF query_length > 500 THEN <<"Long query (>500 chars)">>
    ELSE IF query_length > 200 THEN <<"Medium length query">>
    ELSE <<>>

\* [kw for kw in self.complexity_keywords[...] if ...], as SelectSeq
high_matches(query_lower) ==
    LET In(kw) == Contains(query_lower, kw)
    IN  SelectSeq(complexity_keywords.high, In)

medium_matches(query_lower) ==
    LET In(kw) == Contains(query_lower, kw)
    IN  SelectSeq(complexity_keywords.medium, In)

\* low_matches by substring containment instead of equality
low_matches_substring(query_lower) ==
    LET stripped == Strip(query_lower)
        In(kw) == Contains(stripped, kw)
    IN  SelectSeq(complexity_keywords.low, In)

\* low_matches testing whether the keyword contains the stripped query
low_matches_query_in_keyword(query_lower) ==
    LET stripped == Strip(query_lower)
        In(kw) == Contains(kw, stripped)
    IN  SelectSeq(complexity_keywords.low, In)

low_matches(query_lower) ==
    LET stripped == Strip(query_lower)
        Eq(kw) == stripped = kw
    IN  SelectSeq(complexity_keywords.low, Eq)

\* keyword_score with the medium check adding 2
keyword_score_medium_adds_2(query_lower) ==
    LET afterHigh == IF high_matches(query_lower) # <<>> THEN 0 + 2 ELSE 0
        afterMedium == IF medium_matches(query_lower) # <<>> THEN afterHigh + 2 ELSE afterHigh
    IN  IF low_matches(query_lower) # <<>> THEN 0 ELSE afterMedium

\* keyword_score with the medium check made only when no high keyword matched
keyword_score_elif(query_lower) ==
    LET afterHigh == IF high_matches(query_lower) # <<>> THEN 0 + 2 ELSE 0
        afterMedium == IF high_matches(query_lower) = <<>> /\ medium_matches(query_lower) # <<>>
                       THEN afterHigh + 1 ELSE afterHigh
    IN  IF low_matches(query_lower) # <<>> THEN 0 ELSE afterMedium

\* 2. Keyword Analysis
keyword_score(query_lower) ==
    LET afterHigh == IF high_matches(query_lower) # <<>> THEN 0 + 2 ELSE 0
        afterMedium == IF medium_matches(query_lower) # <<>> THEN afterHigh + 1 ELSE afterHigh
    IN  IF low_matches(query_lower) # <<>> THEN 0 ELSE afterMedium

\* keyword_factors naming every matched high keyword
keyword_factors_all_matches(query_lower) ==
    LET hm == high_matches(query_lower)
        f1 == AppendIf(<<>>, hm # <<>>,
                       "High complexity keywords: " \o Join(hm, ", "))
        f2 == AppendIf(f1, medium_matches(query_lower) # <<>>,
                       "Medium complexity keywords detected")
    IN  AppendIf(f2, low_matches(query_lower) # <<>>, "Simple greeting/response")

keyword_factors(query_lower) ==
    LET hm == high_matches(query_lower)
        f1 == AppendIf(<<>>, hm # <<>>,
                       "High complexity keywords: " \o Join(Take(hm, 3), ", "))
        f2 == AppendIf(f1, medium_matches(query_lower) # <<>>,
                       "Medium complexity keywords detected")
    IN  AppendIf(f2, low_matches(query_lower) # <<>>, "Simple greeting/response")

\* structure_score with the question-mark signal firing from 2 question marks
structure_score_two_questions(q, query_lower) ==
    LET afterCode == IF code_patterns(q) THEN 0 + 2 ELSE 0
        afterQuestions == IF Count(query_lower, "?") >= 2 THEN afterCode + 1 ELSE afterCode
    IN  IF ReNumberedList(q) THEN afterQuestions + 1 ELSE afterQuestions

\* 3. Structure Analysis
structure_score(q, query_lower) ==
    LET afterCode == IF code_patterns(q) THEN 0 + 2 ELSE 0
        afterQuestions == IF Count(query_lower, "?") > 2 THEN afterCode + 1 ELSE afterCode
    IN  IF ReNumberedList(q) THEN afterQuestions + 1 ELSE afterQuestions

\* structure_factors with the numbered-list factor before the question factor
structure_factors_list_first(q, query_lower) ==
    LET f1 == AppendIf(<<>>, code_patterns(q), "Contains code or technical content")
        f2 == AppendIf(f1, ReNumberedList(q), "Structured list/steps detected")
    IN  AppendIf(f2, Count(query_lower, "?") > 2, "Multiple questions detected")

structure_factors(q, query_lower) ==
    LET f1 == AppendIf(<<>>, code_patterns(q), "Contains code or technical content")
        f2 == AppendIf(f1, Count(query_lower, "?") > 2, "Multiple questions detected")
    IN  AppendIf(f2, ReNumberedList(q), "Structured list/steps detected")

\* total_of without the structure score
total_of_no_structure(ls, ks, ss) == ls + ks

\* the total of lines 85-89
total_of(ls, ks, ss) == ls + ks + ss

analyze_query(q) ==
    LET query_lower == Lower(q)
        ls == length_score(Len(q))
        ks == keyword_score(query_lower)
        ss == structure_score(q, query_lower)
    IN  [length_score |-> ls,
         keyword_score |-> ks,
         structure_score |-> ss,
         total_score |-> total_of(ls, ks, ss),
         factors |-> length_factors(Len(q)) \o keyword_factors(query_lower)
                     \o structure_factors(q, query_lower),
         recommended_model |-> None]

\* analysis[key] = value
SetKey(d, key, value) ==
    [k \in DOMAIN d \cup {key} |-> IF k = key THEN value ELSE d[k]]

\* preferred_is_valid looking the preferred model up by display name
preferred_is_valid_by_display_name(p) ==
    p # None /\ p[1] # "" /\ p[1] \in {MODEL_CONFIGS[m].display_name : m \in DOMAIN MODEL_CONFIGS}

\* `preferred_model and preferred_model in self.models`
preferred_is_valid(p) == p # None /\ p[1] # "" /\ p[1] \in DOMAIN models

\* threshold_model with a strict high threshold
threshold_model_strict(total_score) ==
    IF total_score > 4 THEN "gpt-4"
    ELSE IF total_score >= 2 THEN "gpt-35-turbo"
    ELSE "gpt-35-turbo"

\* threshold_model answering the low tier by a name that is not a registry key
threshold_model_unregistered_low(total_score) ==
    IF total_score >= 4 THEN "gpt-4"
    ELSE IF total_score >= 2 THEN "gpt-35-turbo"
    ELSE "gpt-3.5-turbo"

\* the model chosen by lines 118-126
threshold_model(total_score) ==
    IF total_score >= 4 THEN "gpt-4"
    ELSE IF total_score >= 2 THEN "gpt-35-turbo"
    ELSE "gpt-35-turbo"

\* threshold_reason with the medium band starting at 3
threshold_reason_medium_from_3(total_score) ==
    IF total_score >= 4 THEN "High complexity query - using GPT-4 for best results"
    ELSE IF total_score >= 3 THEN "Medium complexity - GPT-3.5 Turbo is efficient"
    ELSE "Simple query - using fast GPT-3.5 Turbo"

\* the selection_reason set by lines 118-126
threshold_reason(total_score) ==
    IF total_score >= 4 THEN "High complexity query - using GPT-4 for best results"
    ELSE IF total_score >= 2 THEN "Medium complexity - GPT-3.5 Turbo is efficient"
    ELSE "Simple query - using fast GPT-3.5 Turbo"

\* select_decide leaving was_auto_selected unset on the preferred-model path
select_decide_no_flag_when_preferred(a, p) ==
    IF preferred_is_valid(p)
    THEN <<p[1],
           SetKey(SetKey(a, "recommended_model", Some(p[1])),
                  "selection_reason", "User specified model")>>
    ELSE LET selected_model == threshold_model(a.total_score)
         IN  <<selected_model,
               SetKey(SetKey(SetKey(a, "selection_reason", threshold_reason(a.total_score)),
                             "recommended_model", Some(selected_model)),
                      "was_auto_selected", TRUE)>>

\* select_model from the point where analyze_query has returned `a`:
\* <<model id, analysis>>
select_decide(a, p) ==
    IF preferred_is_valid(p)
    THEN <<p[1],
           SetKey(SetKey(SetKey(a, "recommended_model", Some(p[1])),
                         "selection_reason", "User specified model"),
                  "was_auto_selected", FALSE)>>
    ELSE LET selected_model == threshold_model(a.total_score)
         IN  <<selected_model,
               SetKey(SetKey(SetKey(a, "selection_reason", threshold_reason(a.total_score)),
                             "recommended_model", Some(selected_model)),
                      "was_auto_selected", TRUE)>>

select_model(q, p) == select_decide(analyze_query(q), p)

-----------------------------------------------------------------------------
(* Inputs of the orchestrator calls *)

\* how far past each length threshold the padded queries go
MaxOver == 1

\* c repeated n times
RECURSIVE Rep(_, _)
Rep(c, n) ==
    IF n <= 0 THEN ""
    ELSE IF n = 1 THEN c
    ELSE LET h == Rep(c, n \div 2)
         IN  IF n % 2 = 0 THEN h \o h ELSE h \o h \o c

\* s padded on the right with c up to n characters
PadTo(s, c, n) == s \o Rep(c, n - Len(s))

Bodies ==
    {"", "hi", "  OK  ", "Hello", "hello there", "no", "thanks a lot",
     "analyze this", "ANALYZE", "summarize this", "analyze and summarize",
     "analyze, compare and summarize the list",
     "Compare, contrast, evaluate and optimize the design",
     "optimize, design, evaluate and analyze",
     "what is this? why? how?", "a? b?", "write code: 1. parse 2. print",
     FENCE \o "x = 1" \o FENCE, "def foo", "undefined", "class  Foo", "import os",
     "from os import path", "x => y", "const x", "constant", "let it be",
     "step 1.", "v1.2", "3.\tgo",
     "analyze " \o FENCE, "design: 1. def f(x) => ???",
     "refactor this? or that? or both? 1. yes"}

\* <<body, padding character>> of the long queries
PadCases == {<<"", "x">>, <<"analyze", "x">>, <<"ok", " ">>, <<"summarize def f", "x">>}

PadLengths == UNION {{t + d : d \in 0..MaxOver} : t \in {200, 500, 1000}}

Queries ==
    Bodies \cup {PadTo(pc[1], pc[2], n) : pc \in PadCases, n \in PadLengths}

PreferredModels ==
    {None, Some(""), Some("gpt-4"), Some("gpt-35-turbo"), Some("not-a-real-model"),
     Some("GPT-4")}

-----------------------------------------------------------------------------
(* Orchestrator calls *)

\* QueryOrchestrator.__init__, and no auxiliary call, remembered call or
\* concurrent caller
OShared ==
    /\ models = MODEL_CONFIGS
    /\ complexity_keywords = COMPLEXITY_KEYWORDS
    /\ aux_arg = None
    /\ aux_ret = None
    /\ memo = None
    /\ tasks = <<>>

OInit ==
    /\ OShared
    /\ \/ opc = "call_analyze_query" /\ preferred_model = None
       \/ opc = "call_select_model" /\ preferred_model \in PreferredModels
    /\ query \in Queries
    /\ analysis = None
    /\ selected = None

\* orchestrator.analyze_query(query)
AnalyzeQuery ==
    /\ opc = "call_analyze_query"
    /\ analysis' = analyze_query(query)
    /\ opc' = "analyze_returned"
    /\ UNCHANGED <<query, preferred_model, selected>>
    /\ UNCHANGED <<models, complexity_keywords, aux_arg, aux_ret, memo, tasks>>
    /\ UNCHANGED cvars
    /\ UNCHANGED svars

\* select_model up to the return of its analyze_query call (line 106 or 113)
SelectModelAnalyze ==
    /\ opc = "call_select_model"
    /\ analysis' = analyze_query(query)
    /\ opc' = "select_analyzed"
    /\ UNCHANGED <<query, preferred_model, selected>>
    /\ UNCHANGED <<models, complexity_keywords, aux_arg, aux_ret, memo, tasks>>
    /\ UNCHANGED cvars
    /\ UNCHANGED svars

\* select_model from there to its return
SelectModelDecide ==
    /\ opc = "select_analyzed"
    /\ LET r == select_decide(analysis, preferred_model)
       IN  /\ selected' = Some(r[1])
           /\ analysis' = r[2]
    /\ opc' = "select_returned"
    /\ UNCHANGED <<query, preferred_model>>
    /\ UNCHANGED <<models, complexity_keywords, aux_arg, aux_ret, memo, tasks>>
    /\ UNCHANGED cvars
    /\ UNCHANGED svars

\* the next call on the global orchestrator
NextCall ==
    /\ opc \in {"analyze_returned", "select_returned"}
    /\ \/ opc' = "call_analyze_query" /\ preferred_model' = None
       \/ opc' = "call_select_model" /\ preferred_model' \in PreferredModels
    /\ query' \in Queries
    /\ analysis' = None
    /\ selected' = None
    /\ UNCHANGED <<models, complexity_keywords, aux_arg, aux_ret, memo, tasks>>
    /\ UNCHANGED cvars
    /\ UNCHANGED svars

ONext ==
    \/ AnalyzeQuery
    \/ SelectModelAnalyze
    \/ SelectModelDecide
    \/ NextCall

\* the client is not in use
CIdle ==
    /\ cpc = "idle"
    /\ initialized = FALSE
    /\ mode = "none"
    /\ req_model = ""
    /\ req_messages = <<>>
    /\ req_stream = FALSE
    /\ cur_model = ""
    /\ cur_messages = <<>>
    /\ pending = <<>>
    /\ attempts = <<>>
    /\ upstream = <<>>
    /\ chunks = <<>>
    /\ result = None

\* no request is being served and the database is empty
SIdle ==
    /\ hpc = "idle"
    /\ request = None
    /\ session = None
    /\ full_response = ""
    /\ events = <<>>
    /\ reply = None
    /\ db_sessions = <<>>
    /\ db_messages = <<>>

InitOrchestrator == OInit /\ CIdle /\ SIdle

SpecOrchestrator == InitOrchestrator /\ [][ONext]_vars

-----------------------------------------------------------------------------
(* azure_client.py: AzureOpenAIClient *)

\* cap on the create() calls of one client call
MaxAttempts == 3

\* MODEL_CONFIGS.get(model_id, MODEL_CONFIGS["gpt-35-turbo"])
model_config(model_id) ==
    IF model_id \in DOMAIN models THEN models[model_id]
    ELSE models["gpt-35-turbo"]

Min(a, b) == IF a < b THEN a ELSE b

\* s[:n]
Prefix(s, n) == SubSeq(s, 1, Min(Len(s), n))

\* the keyword arguments of async_client.chat.completions.create(...)
create_args(messages, model_id, max_tokens, stream) ==
    [model |-> model_config(model_id).deployment_name,
     messages |-> messages,
     max_tokens |-> Min(max_tokens, model_config(model_id).max_tokens),
     stream |-> stream]

\* what create() can do: raise, or give a response
Raise(msg) == [kind |-> "raise", error |-> msg]
Response(choices, total_tokens) ==
    [kind |-> "response", choices |-> choices, usage |-> total_tokens]
Choice(content) == [content |-> content, finish_reason |-> "stop"]

\* what create(stream=True) can do: raise, or give a stream of deltas that
\* ends normally or raises after its last item (a delta of "" carries no text)
Stream(deltas, error) == [kind |-> "stream", deltas |-> deltas, error |-> error]

CompletionOutcomes ==
    {Raise("timeout"),
     Response(<<>>, None),
     Response(<<Choice("answer A")>>, Some(7)),
     Response(<<Choice("answer B")>>, None)}

StreamOutcomes ==
    {Raise("timeout"),
     Stream(<<>>, None),
     Stream(<<"Hel", "", "lo">>, None),
     Stream(<<"Hel">>, Some("reset"))}

\* whether lines 86-97 raise on `response`: response.choices[0] of no choices
build_raises(out, stream) == ~stream /\ out.choices = <<>>

\* the dict returned by lines 86-97 (response_time, a clock reading, is left out)
build_result(out, model_id, stream) ==
    IF stream THEN [stream |-> out, model |-> model_id]
    ELSE [content |-> out.choices[1].content,
          model |-> model_id,
          tokens_used |-> IF out.usage # None THEN out.usage[1] ELSE 0,
          finish_reason |-> out.choices[1].finish_reason]

\* falls_back without the test of model_id
falls_back_unconditional(model_id) == TRUE

\* lines 99-107: TRUE when the except branch calls chat_completion again
falls_back(model_id) == model_id = "gpt-4"

\* the model_id of that call
fallback_model == "gpt-35-turbo"

\* the messages of that call
fallback_messages(messages) == messages

\* _mock_response: the fixed text of each reply is cut after its first sentence
mock_content(messages, model_id) ==
    LET user_message == IF messages # <<>> THEN messages[Len(messages)].content ELSE "Hello"
    IN  IF model_id = "gpt-4"
        THEN "[GPT-4 Mock Response]\n\nI've analyzed your request: \""
             \o Prefix(user_message, 100) \o "...\""
        ELSE "[GPT-3.5 Turbo Mock Response]\n\nHello! I received your message: \""
             \o Prefix(user_message, 50) \o "...\""

_mock_response(messages, model_id) ==
    LET content == mock_content(messages, model_id)
    IN  [content |-> content,
         model |-> model_id,
         tokens_used |-> Len(content) \div 4,
         finish_reason |-> "stop",
         is_mock |-> TRUE]

\* str.split(): the maximal runs of non-space characters, in order
RECURSIVE Split(_)
Split(s) ==
    LET starts == {i \in 1..Len(s) : ~IsSpace(CharAt(s, i))}
    IN  IF starts = {} THEN <<>>
        ELSE LET lo == CHOOSE i \in starts : \A j \in starts : i <= j
                 ends == {j \in lo..Len(s) : j = Len(s) \/ IsSpace(CharAt(s, j + 1))}
                 hi == CHOOSE j \in ends : \A k \in ends : j <= k
             IN  <<SubSeq(s, lo, hi)>> \o Split(SubSeq(s, hi + 1, Len(s)))

\* _mock_stream_response: word + " " for each word
mock_chunks(messages, model_id) ==
    LET words == Split(_mock_response(messages, model_id).content)
    IN  [i \in 1..Len(words) |-> words[i] \o " "]

Msg(role, content) == [role |-> role, content |-> content]

MessageLists ==
    {<<>>,
     <<Msg("system", "You are a helpful AI assistant in ModelZoo."), Msg("user", "hi")>>,
     <<Msg("system", "You are a helpful AI assistant in ModelZoo."), Msg("user", "analyze"),
       Msg("assistant", "answer A"), Msg("user", "compare them")>>}

ModelIds == {"gpt-4", "gpt-35-turbo", "not-a-real-model"}

\* AzureOpenAIClient() at import, before lifespan runs
CInit ==
    /\ cpc = "constructed"
    /\ initialized = FALSE
    /\ mode = "none"
    /\ req_model = ""
    /\ req_messages = <<>>
    /\ req_stream = FALSE
    /\ cur_model = ""
    /\ cur_messages = <<>>
    /\ pending = <<>>
    /\ attempts = <<>>
    /\ upstream = <<>>
    /\ chunks = <<>>
    /\ result = None

\* initialize(): credentials configured or not, the constructors raise or not
Initialize ==
    /\ cpc = "constructed"
    /\ \E configured \in BOOLEAN, constructed \in BOOLEAN :
          initialized' = (configured /\ constructed)
    /\ cpc' = "idle"
    /\ UNCHANGED <<mode, req_model, req_messages, req_stream, cur_model, cur_messages,
                   pending, attempts, upstream, chunks, result>>
    /\ UNCHANGED ovars
    /\ UNCHANGED svars

Finished == {"returned", "raised", "stream_done"}

\* a caller enters chat_completion(messages, model_id, stream=stream)
CallChatCompletion ==
    /\ cpc \in {"idle"} \cup Finished
    /\ \E messages \in MessageLists, model_id \in ModelIds, stream \in BOOLEAN :
          /\ req_messages' = messages
          /\ req_model' = model_id
          /\ req_stream' = stream
          /\ cur_messages' = messages
          /\ cur_model' = model_id
    /\ mode' = "completion"
    /\ cpc' = "entered"
    /\ pending' = <<>>
    /\ attempts' = <<>>
    /\ upstream' = <<>>
    /\ chunks' = <<>>
    /\ result' = None
    /\ UNCHANGED initialized
    /\ UNCHANGED ovars
    /\ UNCHANGED svars

\* lines 71-73: the mock response of an uninitialized client
ChatCompletionMock ==
    /\ cpc = "entered" /\ mode = "completion"
    /\ ~initialized
    /\ result' = Some(_mock_response(cur_messages, cur_model))
    /\ cpc' = "returned"
    /\ UNCHANGED <<initialized, mode, req_model, req_messages, req_stream, cur_model,
                   cur_messages, pending, attempts, upstream, chunks>>
    /\ UNCHANGED ovars
    /\ UNCHANGED svars

\* lines 75-107: one frame of chat_completion, from its create() call to its
\* return, its raise, or its call of chat_completion for the fallback model
ChatCompletionFrame ==
    /\ cpc = "entered" /\ mode = "completion"
    /\ initialized
    /\ Len(attempts) < MaxAttempts
    /\ \E out \in CompletionOutcomes :
          /\ attempts' = Append(attempts, create_args(cur_messages, cur_model, 2048, req_stream))
          /\ upstream' = Append(upstream, out)
          /\ IF out.kind = "response" /\ ~build_raises(out, req_stream)
             THEN /\ result' = Some(build_result(out, cur_model, req_stream))
                  /\ cpc' = "returned"
                  /\ UNCHANGED <<cur_model, cur_messages>>
             ELSE IF falls_back(cur_model)
             THEN /\ cur_model' = fallback_model
                  /\ cur_messages' = fallback_messages(cur_messages)
                  /\ cpc' = "entered"
                  /\ UNCHANGED result
             ELSE /\ result' = Some(IF out.kind = "raise" THEN out
                                    ELSE Raise("list index out of range"))
                  /\ cpc' = "raised"
                  /\ UNCHANGED <<cur_model, cur_messages>>
    /\ UNCHANGED <<initialized, mode, req_model, req_messages, req_stream, pending, chunks>>
    /\ UNCHANGED ovars
    /\ UNCHANGED svars

\* a caller starts iterating chat_completion_stream(messages, model_id)
CallChatCompletionStream ==
    /\ cpc \in {"idle"} \cup Finished
    /\ \E messages \in MessageLists, model_id \in ModelIds :
          /\ req_messages' = messages
          /\ req_model' = model_id
          /\ cur_messages' = messages
          /\ cur_model' = model_id
    /\ req_stream' = TRUE
    /\ mode' = "stream"
    /\ cpc' = "entered"
    /\ pending' = <<>>
    /\ attempts' = <<>>
    /\ upstream' = <<>>
    /\ chunks' = <<>>
    /\ result' = None
    /\ UNCHANGED initialized
    /\ UNCHANGED ovars
    /\ UNCHANGED svars

\* lines 125-129: the mock chunks of an uninitialized client
StreamMock ==
    /\ cpc = "entered" /\ mode = "stream"
    /\ ~initialized
    /\ chunks' = mock_chunks(cur_messages, cur_model)
    /\ cpc' = "stream_done"
    /\ UNCHANGED <<initialized, mode, req_model, req_messages, req_stream, cur_model,
                   cur_messages, pending, attempts, upstream, result>>
    /\ UNCHANGED ovars
    /\ UNCHANGED svars

\* lines 131-138 and 144-146: create(stream=True) gives a stream or raises
StreamCreate ==
    /\ cpc = "entered" /\ mode = "stream"
    /\ initialized
    /\ Len(attempts) < MaxAttempts
    /\ \E out \in StreamOutcomes :
          /\ attempts' = Append(attempts, create_args(cur_messages, cur_model, 2048, TRUE))
          /\ upstream' = Append(upstream, out)
          /\ IF out.kind = "raise"
             THEN /\ chunks' = Append(chunks, "Error: " \o out.error)
                  /\ cpc' = "stream_done"
                  /\ UNCHANGED pending
             ELSE /\ pending' = out.deltas
                  /\ cpc' = "streaming"
                  /\ UNCHANGED chunks
    /\ UNCHANGED <<initialized, mode, req_model, req_messages, req_stream, cur_model,
                   cur_messages, result>>
    /\ UNCHANGED ovars
    /\ UNCHANGED svars

\* lines 140-142: the next item of the stream, yielded when it carries text
StreamChunk ==
    /\ cpc = "streaming"
    /\ pending # <<>>
    /\ chunks' = IF Head(pending) # "" THEN Append(chunks, Head(pending)) ELSE chunks
    /\ pending' = Tail(pending)
    /\ UNCHANGED <<cpc, initialized, mode, req_model, req_messages, req_stream, cur_model,
                   cur_messages, attempts, upstream, result>>
    /\ UNCHANGED ovars
    /\ UNCHANGED svars

\* StreamEnd ending the generator without an error chunk when the stream raised
StreamEndSilently ==
    /\ cpc = "streaming"
    /\ pending = <<>>
    /\ cpc' = "stream_done"
    /\ UNCHANGED <<initialized, mode, req_model, req_messages, req_stream, cur_model,
                   cur_messages, pending, attempts, upstream, result, chunks>>
    /\ UNCHANGED ovars
    /\ UNCHANGED svars

\* the stream is exhausted, or raises (lines 144-146)
StreamEnd ==
    /\ cpc = "streaming"
    /\ pending = <<>>
    /\ LET out == upstream[Len(upstream)]
       IN  chunks' = IF out.error # None THEN Append(chunks, "Error: " \o out.error[1])
                     ELSE chunks
    /\ cpc' = "stream_done"
    /\ UNCHANGED <<initialized, mode, req_model, req_messages, req_stream, cur_model,
                   cur_messages, pending, attempts, upstream, result>>
    /\ UNCHANGED ovars
    /\ UNCHANGED svars

CNext ==
    \/ Initialize
    \/ CallChatCompletion
    \/ ChatCompletionMock
    \/ ChatCompletionFrame
    \/ CallChatCompletionStream
    \/ StreamMock
    \/ StreamCreate
    \/ StreamChunk
    \/ StreamEnd

\* the orchestrator is not in use
OIdle ==
    /\ OShared
    /\ opc = "idle"
    /\ query = ""
    /\ preferred_model = None
    /\ analysis = None
    /\ selected = None

InitClient == CInit /\ OIdle /\ SIdle

SpecClient == InitClient /\ [][CNext]_vars

-----------------------------------------------------------------------------
(* orchestrator.py: sequences of calls of all five operations on the global
   orchestrator *)

\* self.models after get_model_config has inserted the default under a
\* missing id (dict.setdefault in place of dict.get)
models_after_setdefault(model_id) ==
    [k \in DOMAIN models \cup {model_id} |->
        IF k \in DOMAIN models THEN models[k] ELSE models["gpt-35-turbo"]]

\* self.models after get_model_config(model_id): dict.get writes nothing
models_after_get_model_config(model_id) == models

\* get_model_config defaulting to the high-tier descriptor
get_model_config_default_gpt4(model_id) ==
    IF model_id \in DOMAIN models THEN models[model_id]
    ELSE models["gpt-4"]

\* self.models.get(model_id, self.models["gpt-35-turbo"])
get_model_config(model_id) ==
    IF model_id \in DOMAIN models THEN models[model_id]
    ELSE models["gpt-35-turbo"]

\* len(text) // 4
estimate_tokens(text) == Len(text) \div 4

\* the keys of MODEL_CONFIGS in insertion order, as self.models.items() yields them
MODEL_ORDER == <<"gpt-4", "gpt-35-turbo">>

get_available_models ==
    [i \in 1..Len(MODEL_ORDER) |->
        LET model_id == MODEL_ORDER[i]
            config == models[model_id]
        IN  [id |-> model_id,
             display_name |-> config.display_name,
             description |-> config.description,
             max_tokens |-> config.max_tokens,
             capabilities |-> config.capabilities]]

\* arguments of the calls
CallQueries == {"hi", "analyze and summarize", "design: 1. def f(x) => ???"}
CallPreferred == {None, Some("gpt-4"), Some("not-a-real-model")}
ModelIdArgs == {"gpt-4", "gpt-35-turbo", "not-a-real-model", ""}
TextArgs == {"", "abc", "abcd", "abcdefghi"}

Returned ==
    {"analyze_returned", "select_returned", "get_model_config_returned",
     "estimate_tokens_returned", "get_available_models_returned"}

\* the call that has just returned, with what it returned
FinishedCall ==
    [op |-> opc, query |-> query, preferred_model |-> preferred_model,
     analysis |-> analysis, selected |-> selected]

\* a caller makes the next call; the first analyze_query or select_model call
\* it chooses to keep is remembered with its result
StartCall ==
    /\ opc \in Returned \cup {"idle"}
    /\ \/ /\ memo = None
          /\ opc \in {"analyze_returned", "select_returned"}
          /\ memo' = Some(FinishedCall)
       \/ memo' = memo
    /\ \/ /\ opc' = "call_analyze_query"
          /\ query' \in CallQueries
          /\ preferred_model' = None
          /\ aux_arg' = None
       \/ /\ opc' = "call_select_model"
          /\ query' \in CallQueries
          /\ preferred_model' \in CallPreferred
          /\ aux_arg' = None
       \/ /\ opc' = "call_get_model_config"
          /\ aux_arg' \in {Some(m) : m \in ModelIdArgs}
          /\ query' = ""
          /\ preferred_model' = None
       \/ /\ opc' = "call_estimate_tokens"
          /\ aux_arg' \in {Some(t) : t \in TextArgs}
          /\ query' = ""
          /\ preferred_model' = None
       \/ /\ opc' = "call_get_available_models"
          /\ aux_arg' = None
          /\ query' = ""
          /\ preferred_model' = None
    /\ analysis' = None
    /\ selected' = None
    /\ aux_ret' = None
    /\ UNCHANGED <<models, complexity_keywords, tasks>>
    /\ UNCHANGED cvars
    /\ UNCHANGED svars

\* orchestrator.get_model_config(model_id)
GetModelConfig ==
    /\ opc = "call_get_model_config"
    /\ aux_ret' = Some(get_model_config(aux_arg[1]))
    /\ models' = models_after_get_model_config(aux_arg[1])
    /\ opc' = "get_model_config_returned"
    /\ UNCHANGED <<query, preferred_model, analysis, selected>>
    /\ UNCHANGED <<complexity_keywords, aux_arg, memo, tasks>>
    /\ UNCHANGED cvars
    /\ UNCHANGED svars

\* orchestrator.estimate_tokens(text)
EstimateTokens ==
    /\ opc = "call_estimate_tokens"
    /\ aux_ret' = Some(estimate_tokens(aux_arg[1]))
    /\ opc' = "estimate_tokens_returned"
    /\ UNCHANGED <<query, preferred_model, analysis, selected>>
    /\ UNCHANGED <<models, complexity_keywords, aux_arg, memo, tasks>>
    /\ UNCHANGED cvars
    /\ UNCHANGED svars

\* orchestrator.get_available_models()
GetAvailableModels ==
    /\ opc = "call_get_available_models"
    /\ aux_ret' = Some(get_available_models)
    /\ opc' = "get_available_models_returned"
    /\ UNCHANGED <<query, preferred_model, analysis, selected>>
    /\ UNCHANGED <<models, complexity_keywords, aux_arg, memo, tasks>>
    /\ UNCHANGED cvars
    /\ UNCHANGED svars

CallsNext ==
    \/ StartCall
    \/ AnalyzeQuery
    \/ SelectModelAnalyze
    \/ SelectModelDecide
    \/ GetModelConfig
    \/ EstimateTokens
    \/ GetAvailableModels

InitCalls == OIdle /\ CIdle /\ SIdle

SpecCalls == InitCalls /\ [][CallsNext]_vars

-----------------------------------------------------------------------------
(* orchestrator.py: callers running select_model concurrently on the global
   orchestrator, interleaved statement group by statement group *)

\* number of concurrent callers
NumCallers == 2

Callers == 1..NumCallers

ConcurrentQueries == {"analyze and summarize", "a? b? c? 1. x"}
ConcurrentPreferred == {None, Some("gpt-4")}

\* every caller's slot holds the one dict created by the first caller
analysis_slot_shared(c) == 1

\* where caller c's analysis dict lives: `analysis = {...}` binds a local of
\* the call to a new dict
analysis_slot(c) == c

\* the dict of lines 21-28
new_analysis ==
    [length_score |-> 0, keyword_score |-> 0, structure_score |-> 0, total_score |-> 0,
     factors |-> <<>>, recommended_model |-> None]

\* caller c's dict
TaskAnalysis(c) == tasks[analysis_slot(c)].analysis

InitTasks ==
    tasks \in [Callers -> [pc : {"call"},
                           query : ConcurrentQueries,
                           preferred_model : ConcurrentPreferred,
                           analysis : {None},
                           ret : {None}]]

\* tasks once caller c has moved to position `to` and its dict has become a
Moved(c, to, a) ==
    [[tasks EXCEPT ![c].pc = to] EXCEPT ![analysis_slot(c)].analysis = a]

\* lines 21-28
TaskCreate(c) ==
    /\ tasks[c].pc = "call"
    /\ tasks' = Moved(c, "created", new_analysis)
    /\ UNCHANGED <<opc, query, preferred_model, analysis, selected>>
    /\ UNCHANGED <<models, complexity_keywords, aux_arg, aux_ret, memo>>
    /\ UNCHANGED cvars
    /\ UNCHANGED svars

\* lines 30-40
TaskLength(c) ==
    /\ tasks[c].pc = "created"
    /\ LET a == TaskAnalysis(c)
           n == Len(tasks[c].query)
       IN  tasks' = Moved(c, "length_done",
                          [a EXCEPT !.length_score = length_score(n),
                                    !.factors = a.factors \o length_factors(n)])
    /\ UNCHANGED <<opc, query, preferred_model, analysis, selected>>
    /\ UNCHANGED <<models, complexity_keywords, aux_arg, aux_ret, memo>>
    /\ UNCHANGED cvars
    /\ UNCHANGED svars

\* lines 42-61
TaskKeyword(c) ==
    /\ tasks[c].pc = "length_done"
    /\ LET a == TaskAnalysis(c)
           query_lower == Lower(tasks[c].query)
       IN  tasks' = Moved(c, "keyword_done",
                          [a EXCEPT !.keyword_score = keyword_score(query_lower),
                                    !.factors = a.factors \o keyword_factors(query_lower)])
    /\ UNCHANGED <<opc, query, preferred_model, analysis, selected>>
    /\ UNCHANGED <<models, complexity_keywords, aux_arg, aux_ret, memo>>
    /\ UNCHANGED cvars
    /\ UNCHANGED svars

\* lines 63-82
TaskStructure(c) ==
    /\ tasks[c].pc = "keyword_done"
    /\ LET a == TaskAnalysis(c)
           q == tasks[c].query
       IN  tasks' = Moved(c, "structure_done",
                          [a EXCEPT !.structure_score = structure_score(q, Lower(q)),
                                    !.factors = a.factors \o structure_factors(q, Lower(q))])
    /\ UNCHANGED <<opc, query, preferred_model, analysis, selected>>
    /\ UNCHANGED <<models, complexity_keywords, aux_arg, aux_ret, memo>>
    /\ UNCHANGED cvars
    /\ UNCHANGED svars

\* lines 84-91
TaskTotal(c) ==
    /\ tasks[c].pc = "structure_done"
    /\ LET a == TaskAnalysis(c)
       IN  tasks' = Moved(c, "analyzed",
                          [a EXCEPT !.total_score =
                               total_of(a.length_score, a.keyword_score, a.structure_score)])
    /\ UNCHANGED <<opc, query, preferred_model, analysis, selected>>
    /\ UNCHANGED <<models, complexity_keywords, aux_arg, aux_ret, memo>>
    /\ UNCHANGED cvars
    /\ UNCHANGED svars

\* lines 105-131; the test of line 105 reads self.models, which no step
\* writes, so it is taken here together with the decision
TaskDecide(c) ==
    /\ tasks[c].pc = "analyzed"
    /\ LET r == select_decide(TaskAnalysis(c), tasks[c].preferred_model)
       IN  tasks' = [Moved(c, "returned", r[2]) EXCEPT ![c].ret = Some(r)]
    /\ UNCHANGED <<opc, query, preferred_model, analysis, selected>>
    /\ UNCHANGED <<models, complexity_keywords, aux_arg, aux_ret, memo>>
    /\ UNCHANGED cvars
    /\ UNCHANGED svars

ConcurrentNext ==
    \E c \in Callers :
        \/ TaskCreate(c)
        \/ TaskLength(c)
        \/ TaskKeyword(c)
        \/ TaskStructure(c)
        \/ TaskTotal(c)
        \/ TaskDecide(c)

InitConcurrent ==
    /\ models = MODEL_CONFIGS
    /\ complexity_keywords = COMPLEXITY_KEYWORDS
    /\ aux_arg = None
    /\ aux_ret = None
    /\ memo = None
    /\ InitTasks
    /\ opc = "idle"
    /\ query = ""
    /\ preferred_model = None
    /\ analysis = None
    /\ selected = None
    /\ CIdle
    /\ SIdle

SpecConcurrent == InitConcurrent /\ [][ConcurrentNext]_vars

-----------------------------------------------------------------------------
(* services.py: ChatService, and the endpoints of main.py that use it *)

\* get_session_messages(..., limit: int = 100)
HistoryLimit == 100

\* history[-10:]
ContextWindow == 10

\* request.message[:50]
TitleLength == 50

\* str(n) for a natural number n
RECURSIVE Dec(_)
Dec(n) ==
    IF n < 10 THEN SubSeq(DIGITS, n + 1, n + 1)
    ELSE Dec(n \div 10) \o SubSeq(DIGITS, (n % 10) + 1, (n % 10) + 1)

\* seq[-n:]
LastN(seq, n) == SubSeq(seq, IF Len(seq) > n THEN Len(seq) - n + 1 ELSE 1, Len(seq))

\* a row of table messages (id, scores, timings and metadata are left out;
\* the position of the row in db_messages stands for its timestamp)
Row(session_id, role, content, model_used) ==
    [session_id |-> session_id, role |-> role, content |-> content, model_used |-> model_used]

\* get_session: the id when a row of chat_sessions has it, else None
get_session(session_id) ==
    IF session_id \in DOMAIN db_sessions THEN Some(session_id) ELSE None

\* id=str(uuid.uuid4()): an id no row has
new_session_id == "new" \o Dec(Cardinality(DOMAIN db_sessions))

\* create_session: chat_sessions with the new row
sessions_after_create ==
    [k \in DOMAIN db_sessions \cup {new_session_id} |->
        IF k \in DOMAIN db_sessions THEN db_sessions[k] ELSE [title |-> "New Chat"]]

\* update_session_title: UPDATE ... WHERE id = session_id
sessions_after_title(session_id, title) ==
    [k \in DOMAIN db_sessions |->
        IF k = session_id THEN [db_sessions[k] EXCEPT !.title = title] ELSE db_sessions[k]]

\* the rows of a session, in timestamp order
session_rows(session_id) ==
    LET Mine(row) == row.session_id = session_id
    IN  SelectSeq(db_messages, Mine)

\* get_session_messages: ORDER BY timestamp LIMIT 100
get_session_messages(session_id) == Take(session_rows(session_id), HistoryLimit)

\* select(func.count(Message.id)).where(Message.session_id == session.id)
count_messages(session_id) == Len(session_rows(session_id))

\* [{"role": msg.role, "content": msg.content} for msg in history[-10:]]
context_of(history) ==
    LET recent == LastN(history, ContextWindow)
    IN  [i \in 1..Len(recent) |-> Msg(recent[i].role, recent[i].content)]

SYSTEM_PROMPT ==
    "You are a helpful AI assistant in ModelZoo. Provide clear, accurate, and helpful responses. Be concise but thorough."

STREAM_SYSTEM_PROMPT == "You are a helpful AI assistant in ModelZoo."

\* request.message[:50] + ("..." if len(request.message) > 50 else "")
generated_title(message) ==
    Prefix(message, TitleLength) \o (IF Len(message) > TitleLength THEN "..." ELSE "")

\* the title test passing for every count
title_due_always(count) == TRUE

\* messages_count.scalar() <= 2
title_due(count) == count <= 2

\* the assistant row stores the selected model
stored_model_selected(response, selected_model) == selected_model

\* model_used=response["model"]
stored_model(response, selected_model) == response.model

\* `not config`
Falsy(config) == config = None \/ DOMAIN config = {}

\* the rows of the one session the database holds at start: exchanges of
\* user and assistant messages, the last one unanswered when n is odd
OldRows(n) ==
    [i \in 1..n |->
        IF i % 2 = 1 THEN Row("s1", "user", "question " \o Dec(i), None)
        ELSE Row("s1", "assistant", "answer " \o Dec(i), Some("gpt-35-turbo"))]

InitialSizes == {0, 1, 2, 10, 99, 100}

ChatMessages == {"hi", "analyze and compare the two designs, then summarize the result"}

RequestModels == {None, Some("gpt-4")}

RequestSessionIds == {None, Some("s1"), Some("missing")}

ChatRequests ==
    [message : ChatMessages, model : RequestModels, session_id : RequestSessionIds]

\* the application has started: the client is constructed, the orchestrator
\* idle, and the database holds one session with some earlier messages
InitService ==
    /\ CInit
    /\ OIdle
    /\ hpc = "idle"
    /\ request = None
    /\ session = None
    /\ full_response = ""
    /\ events = <<>>
    /\ reply = None
    /\ db_sessions = [k \in {"s1"} |-> [title |-> "Earlier chat"]]
    /\ \E n \in InitialSizes : db_messages = OldRows(n)

\* POST /api/chat: chat() calls process_chat(db, request)
ChatArrives ==
    /\ hpc = "idle"
    /\ cpc = "idle"
    /\ request' \in ChatRequests
    /\ hpc' = "chat_entered"
    /\ UNCHANGED <<session, full_response, events, reply, db_sessions, db_messages>>
    /\ UNCHANGED ovars
    /\ UNCHANGED cvars

\* lines 188-200: get or create the session, then call select_model
ProcessChatSession ==
    /\ hpc = "chat_entered"
    /\ LET found == IF request.session_id # None /\ request.session_id[1] # ""
                    THEN get_session(request.session_id[1]) ELSE None
       IN  IF found # None
           THEN /\ session' = found
                /\ UNCHANGED db_sessions
           ELSE /\ session' = Some(new_session_id)
                /\ db_sessions' = sessions_after_create
    /\ opc' = "call_select_model"
    /\ query' = request.message
    /\ preferred_model' = request.model
    /\ analysis' = None
    /\ selected' = None
    /\ hpc' = "chat_selecting"
    /\ UNCHANGED <<request, full_response, events, reply, db_messages>>
    /\ UNCHANGED <<models, complexity_keywords, aux_arg, aux_ret, memo, tasks>>
    /\ UNCHANGED cvars

\* lines 203-209: add_message(db, session.id, "user", request.message, ...)
ProcessChatSaveUser ==
    /\ hpc = "chat_selecting"
    /\ opc = "select_returned"
    /\ db_messages' = Append(db_messages, Row(session[1], "user", request.message, None))
    /\ hpc' = "chat_user_saved"
    /\ UNCHANGED <<request, session, full_response, events, reply, db_sessions>>
    /\ UNCHANGED ovars
    /\ UNCHANGED cvars

\* lines 212-229: the context is built and chat_completion is entered
ProcessChatCallUpstream ==
    /\ hpc = "chat_user_saved"
    /\ LET history == get_session_messages(session[1])
           messages == <<Msg("system", SYSTEM_PROMPT)>> \o context_of(history)
       IN  /\ req_messages' = messages
           /\ cur_messages' = messages
    /\ req_model' = selected[1]
    /\ cur_model' = selected[1]
    /\ req_stream' = FALSE
    /\ mode' = "completion"
    /\ cpc' = "entered"
    /\ pending' = <<>>
    /\ attempts' = <<>>
    /\ upstream' = <<>>
    /\ chunks' = <<>>
    /\ result' = None
    /\ hpc' = "chat_upstream"
    /\ UNCHANGED initialized
    /\ UNCHANGED <<request, session, full_response, events, reply, db_sessions, db_messages>>
    /\ UNCHANGED ovars

\* lines 232-241: add_message(db, session.id, "assistant", response["content"], ...)
ProcessChatSaveAssistant ==
    /\ hpc = "chat_upstream"
    /\ cpc = "returned"
    /\ db_messages' = Append(db_messages,
                             Row(session[1], "assistant", result[1].content,
                                 Some(stored_model(result[1], selected[1]))))
    /\ hpc' = "chat_assistant_saved"
    /\ UNCHANGED <<request, session, full_response, events, reply, db_sessions>>
    /\ UNCHANGED ovars
    /\ UNCHANGED cvars

\* ProcessChatFails storing the error text as an assistant message, as the
\* streaming endpoint does
ProcessChatFailsSavingError ==
    /\ hpc = "chat_upstream"
    /\ cpc = "raised"
    /\ db_messages' = Append(db_messages,
                             Row(session[1], "assistant", "Error: " \o result[1].error,
                                 Some(selected[1])))
    /\ reply' = Some([status |-> 500, detail |-> result[1].error])
    /\ hpc' = "chat_replied"
    /\ UNCHANGED <<request, session, full_response, events, db_sessions>>
    /\ UNCHANGED ovars
    /\ UNCHANGED cvars

\* chat_completion raised: process_chat raises, chat() answers 500
ProcessChatFails ==
    /\ hpc = "chat_upstream"
    /\ cpc = "raised"
    /\ reply' = Some([status |-> 500, detail |-> result[1].error])
    /\ hpc' = "chat_replied"
    /\ UNCHANGED <<request, session, full_response, events, db_sessions, db_messages>>
    /\ UNCHANGED ovars
    /\ UNCHANGED cvars

\* lines 244-269: the title of a first exchange, and the result
ProcessChatReturn ==
    /\ hpc = "chat_assistant_saved"
    /\ db_sessions' = IF title_due(count_messages(session[1]))
                      THEN sessions_after_title(session[1], generated_title(request.message))
                      ELSE db_sessions
    /\ LET assistant_message == db_messages[Len(db_messages)]
       IN  reply' = Some([status |-> 200,
                          session_id |-> session[1],
                          message |-> [role |-> assistant_message.role,
                                       content |-> assistant_message.content,
                                       model_used |-> assistant_message.model_used,
                                       complexity_score |-> analysis.total_score],
                          model_selected |-> selected[1],
                          was_auto_selected |-> analysis.was_auto_selected,
                          complexity_score |-> analysis.total_score,
                          analysis |-> analysis])
    /\ hpc' = "chat_replied"
    /\ UNCHANGED <<request, session, full_response, events, db_messages>>
    /\ UNCHANGED ovars
    /\ UNCHANGED cvars

\* POST /api/chat/stream: the response starts and generate() is iterated
StreamArrives ==
    /\ hpc = "idle"
    /\ cpc = "idle"
    /\ request' \in ChatRequests
    /\ hpc' = "stream_entered"
    /\ UNCHANGED <<session, full_response, events, reply, db_sessions, db_messages>>
    /\ UNCHANGED ovars
    /\ UNCHANGED cvars

\* main.py lines 227-236: get the session named by the request, or create
\* one when the request names none; then call select_model
ChatStreamSession ==
    /\ hpc = "stream_entered"
    /\ IF request.session_id # None /\ request.session_id[1] # ""
       THEN /\ session' = get_session(request.session_id[1])
            /\ UNCHANGED db_sessions
       ELSE /\ session' = Some(new_session_id)
            /\ db_sessions' = sessions_after_create
    /\ opc' = "call_select_model"
    /\ query' = request.message
    /\ preferred_model' = request.model
    /\ analysis' = None
    /\ selected' = None
    /\ hpc' = "stream_selecting"
    /\ UNCHANGED <<request, full_response, events, reply, db_messages>>
    /\ UNCHANGED <<models, complexity_keywords, aux_arg, aux_ret, memo, tasks>>
    /\ UNCHANGED cvars

\* line 239: session.id of no session raises AttributeError out of generate()
ChatStreamNoSession ==
    /\ hpc = "stream_selecting"
    /\ opc = "select_returned"
    /\ session = None
    /\ reply' = Some([status |-> 200, aborted |-> TRUE,
                      error |-> "'NoneType' object has no attribute 'id'"])
    /\ hpc' = "stream_replied"
    /\ UNCHANGED <<request, session, full_response, events, db_sessions, db_messages>>
    /\ UNCHANGED ovars
    /\ UNCHANGED cvars

\* line 239: add_message(db, session.id, "user", request.message)
ChatStreamSaveUser ==
    /\ hpc = "stream_selecting"
    /\ opc = "select_returned"
    /\ session # None
    /\ db_messages' = Append(db_messages, Row(session[1], "user", request.message, None))
    /\ hpc' = "stream_user_saved"
    /\ UNCHANGED <<request, session, full_response, events, reply, db_sessions>>
    /\ UNCHANGED ovars
    /\ UNCHANGED cvars

\* lines 242-254: the context is built, 'meta' is yielded and the iteration of
\* chat_completion_stream begins
ChatStreamMeta ==
    /\ hpc = "stream_user_saved"
    /\ LET history == get_session_messages(session[1])
           messages == <<Msg("system", STREAM_SYSTEM_PROMPT)>> \o context_of(history)
       IN  /\ req_messages' = messages
           /\ cur_messages' = messages
    /\ events' = Append(events, [type |-> "meta", session_id |-> session[1],
                                 model |-> selected[1]])
    /\ full_response' = ""
    /\ req_model' = selected[1]
    /\ cur_model' = selected[1]
    /\ req_stream' = TRUE
    /\ mode' = "stream"
    /\ cpc' = "entered"
    /\ pending' = <<>>
    /\ attempts' = <<>>
    /\ upstream' = <<>>
    /\ chunks' = <<>>
    /\ result' = None
    /\ hpc' = "streaming"
    /\ UNCHANGED initialized
    /\ UNCHANGED <<request, session, reply, db_sessions, db_messages>>
    /\ UNCHANGED ovars

\* the chunks chat_stream has taken from the generator so far
Forwarded == Cardinality({i \in 1..Len(events) : events[i].type = "chunk"})

\* lines 254-256: the next chunk is appended to full_response and yielded
ChatStreamChunk ==
    /\ hpc = "streaming"
    /\ Forwarded < Len(chunks)
    /\ LET chunk == chunks[Forwarded + 1]
       IN  /\ full_response' = full_response \o chunk
           /\ events' = Append(events, [type |-> "chunk", content |-> chunk])
    /\ UNCHANGED <<hpc, request, session, reply, db_sessions, db_messages>>
    /\ UNCHANGED ovars
    /\ UNCHANGED cvars

\* lines 259-261: the generator is exhausted; the assistant message is saved
ChatStreamSaveAssistant ==
    /\ hpc = "streaming"
    /\ cpc = "stream_done"
    /\ Forwarded = Len(chunks)
    /\ db_messages' = Append(db_messages,
                             Row(session[1], "assistant", full_response, Some(selected[1])))
    /\ hpc' = "stream_saved"
    /\ UNCHANGED <<request, session, full_response, events, reply, db_sessions>>
    /\ UNCHANGED ovars
    /\ UNCHANGED cvars

\* line 263: 'done' is yielded and generate() ends
ChatStreamDone ==
    /\ hpc = "stream_saved"
    /\ events' = Append(events, [type |-> "done"])
    /\ reply' = Some([status |-> 200, aborted |-> FALSE])
    /\ hpc' = "stream_replied"
    /\ UNCHANGED <<request, session, full_response, db_sessions, db_messages>>
    /\ UNCHANGED ovars
    /\ UNCHANGED cvars

\* GET /api/models/{model_id}
GetModelArrives ==
    /\ hpc = "idle"
    /\ cpc = "idle"
    /\ request' \in [model_id : ModelIdArgs]
    /\ hpc' = "get_model_entered"
    /\ UNCHANGED <<session, full_response, events, reply, db_sessions, db_messages>>
    /\ UNCHANGED ovars
    /\ UNCHANGED cvars

\* main.py lines 101-112
GetModel ==
    /\ hpc = "get_model_entered"
    /\ LET config == get_model_config(request.model_id)
       IN  reply' = Some(IF Falsy(config)
                         THEN [status |-> 404, detail |-> "Model not found"]
                         ELSE [status |-> 200,
                               id |-> request.model_id,
                               display_name |-> config.display_name,
                               description |-> config.description,
                               max_tokens |-> config.max_tokens,
                               capabilities |-> config.capabilities,
                               is_available |-> TRUE])
    /\ hpc' = "get_model_replied"
    /\ UNCHANGED <<request, session, full_response, events, db_sessions, db_messages>>
    /\ UNCHANGED ovars
    /\ UNCHANGED cvars

ServiceNext ==
    \/ Initialize
    \/ ChatArrives
    \/ ProcessChatSession
    \/ SelectModelAnalyze
    \/ SelectModelDecide
    \/ ProcessChatSaveUser
    \/ ProcessChatCallUpstream
    \/ ChatCompletionMock
    \/ ChatCompletionFrame
    \/ ProcessChatSaveAssistant
    \/ ProcessChatFails
    \/ ProcessChatReturn
    \/ StreamArrives
    \/ ChatStreamSession
    \/ ChatStreamNoSession
    \/ ChatStreamSaveUser
    \/ ChatStreamMeta
    \/ StreamMock
    \/ StreamCreate
    \/ StreamChunk
    \/ StreamEnd
    \/ ChatStreamChunk
    \/ ChatStreamSaveAssistant
    \/ ChatStreamDone
    \/ GetModelArrives
    \/ GetModel

SpecService == InitService /\ [][ServiceNext]_vars

-----------------------------------------------------------------------------
(* Properties of the orchestrator, checked under SpecOrchestrator *)

\* an analysis record is in hand
HasAnalysis == opc \in {"analyze_returned", "select_analyzed", "select_returned"}

\* the preferred model names an entry of the registry
PreferredInRegistry == preferred_model # None /\ preferred_model[1] \in {"gpt-4", "gpt-35-turbo"}

Scores(a) == <<a.length_score, a.keyword_score, a.structure_score, a.total_score>>

\* C3: with a preferred model that is absent or not in the registry,
\* select_model returns gpt-4 exactly when total_score >= 4 and gpt-35-turbo
\* for every total_score < 4, and was_auto_selected is true.
C3_AutoSelectThreshold ==
    (opc = "select_returned" /\ ~PreferredInRegistry) =>
        /\ (selected = Some("gpt-4")) <=> (analysis.total_score >= 4)
        /\ (analysis.total_score < 4) => (selected = Some("gpt-35-turbo"))
        /\ analysis.was_auto_selected = TRUE

C3_Witness ==
    /\ opc = "select_returned"
    /\ preferred_model = Some("not-a-real-model")
    /\ analysis.total_score = 4
    /\ selected = Some("gpt-4")

\* C4: with a preferred model that is a key of the registry, select_model
\* returns it, with recommended_model = preferred_model, selection_reason =
\* "User specified model" and was_auto_selected = false, whatever the
\* total_score; the scores are those analyze_query computes for the query.
C4_PreferredWins ==
    (opc = "select_returned" /\ PreferredInRegistry) =>
        /\ selected = preferred_model
        /\ analysis.recommended_model = preferred_model
        /\ analysis.selection_reason = "User specified model"
        /\ analysis.was_auto_selected = FALSE
        /\ LET a == analyze_query(query)
           IN  Scores(analysis) = Scores(a) /\ analysis.factors = a.factors

C4_Witness ==
    /\ opc = "select_returned"
    /\ preferred_model = Some("gpt-35-turbo")
    /\ analysis.total_score >= 4
    /\ selected = Some("gpt-35-turbo")
    /\ analysis.was_auto_selected = FALSE

\* C5: select_model with a preferred model that is not in the registry (the
\* empty string included) returns the model id and the analysis record that
\* select_model returns for the same query with no preferred model.
C5_UnknownPreferredIsNone ==
    (opc = "select_returned" /\ preferred_model # None /\ ~PreferredInRegistry) =>
        LET r == select_model(query, None)
        IN  selected = Some(r[1]) /\ analysis = r[2]

C5_Witness ==
    /\ opc = "select_returned"
    /\ preferred_model = Some("")
    /\ selected = Some("gpt-4")
    /\ analysis.was_auto_selected = TRUE

\* C6: under automatic selection the selection_reason follows total_score in
\* three exhaustive, exclusive bands (>= 4 high, 2..3 medium, < 2 simple), and
\* the medium and simple bands select the same model.
C6_ReasonBands ==
    (opc = "select_returned" /\ ~PreferredInRegistry) =>
        LET t == analysis.total_score
            r == analysis.selection_reason
        IN  /\ (t >= 4) <=> (r = "High complexity query - using GPT-4 for best results")
            /\ (2 <= t /\ t < 4) <=> (r = "Medium complexity - GPT-3.5 Turbo is efficient")
            /\ (t < 2) <=> (r = "Simple query - using fast GPT-3.5 Turbo")
            /\ (t < 4) => (selected = Some("gpt-35-turbo"))

C6_Witness ==
    /\ opc = "select_returned"
    /\ preferred_model = None
    /\ analysis.total_score = 2
    /\ analysis.selection_reason = "Medium complexity - GPT-3.5 Turbo is efficient"
    /\ selected = Some("gpt-35-turbo")

\* C7: every analysis record has total_score = length_score + keyword_score +
\* structure_score, and select_model changes none of the four score fields
\* once analyze_query has produced them.
C7_SumState ==
    HasAnalysis =>
        analysis.total_score =
            analysis.length_score + analysis.keyword_score + analysis.structure_score

C7_TotalIsSum ==
    /\ []C7_SumState
    /\ [][(opc = "select_analyzed") => (Scores(analysis') = Scores(analysis))]_vars

C7_Witness ==
    /\ opc = "select_returned"
    /\ analysis.length_score = 2
    /\ analysis.keyword_score = 1
    /\ analysis.structure_score = 2
    /\ analysis.total_score = 5

LengthFactorTexts ==
    {"Very long query (>1000 chars)", "Long query (>500 chars)", "Medium length query"}

\* C8: for a query of L characters length_score is 3 when L > 1000, 2 when
\* 500 < L <= 1000, 1 when 200 < L <= 500 and 0 when L <= 200; at most one
\* length factor is added, and none when L <= 200.
C8_LengthTiers ==
    HasAnalysis =>
        LET L == Len(query)
            n == Cardinality({i \in 1..Len(analysis.factors) :
                                 analysis.factors[i] \in LengthFactorTexts})
        IN  /\ (L > 1000) => (analysis.length_score = 3)
            /\ (500 < L /\ L <= 1000) => (analysis.length_score = 2)
            /\ (200 < L /\ L <= 500) => (analysis.length_score = 1)
            /\ (L <= 200) => (analysis.length_score = 0)
            /\ n <= 1
            /\ (L <= 200) <=> (n = 0)

C8_Witness ==
    /\ opc = "analyze_returned"
    /\ Len(query) = 500
    /\ analysis.length_score = 1
    /\ analysis.factors[1] = "Medium length query"

\* C9 as stated: keyword_score is always in {0, 1, 2}.
C9_KeywordScoreAtMost2 == HasAnalysis => analysis.keyword_score \in {0, 1, 2}

\* C9, amended: keyword_score is always in {0, 1, 2, 3}.
C9_KeywordScoreRange == HasAnalysis => analysis.keyword_score \in {0, 1, 2, 3}

C9_Witness ==
    /\ opc = "analyze_returned"
    /\ query = "analyze and summarize"
    /\ analysis.keyword_score = 3

AnyKeyword(tier, text) ==
    \E i \in 1..Len(COMPLEXITY_KEYWORDS[tier]) : Contains(text, COMPLEXITY_KEYWORDS[tier][i])

CountKeywords(tier, text) ==
    Cardinality({i \in 1..Len(COMPLEXITY_KEYWORDS[tier]) :
                    Contains(text, COMPLEXITY_KEYWORDS[tier][i])})

\* C10: keyword_score is 2 for the presence of any high keyword in the
\* lowercased query plus 1 for the presence of any medium keyword: the two
\* checks are independent, both can fire, and the number of keywords matched
\* in a tier does not change the amount.
C10_KeywordAdditive ==
    HasAnalysis =>
        LET text == Lower(query)
        IN  analysis.keyword_score =
                (IF AnyKeyword("high", text) THEN 2 ELSE 0)
                + (IF AnyKeyword("medium", text) THEN 1 ELSE 0)

C10_Witness ==
    /\ opc = "analyze_returned"
    /\ CountKeywords("high", Lower(query)) >= 2
    /\ CountKeywords("medium", Lower(query)) >= 2
    /\ analysis.keyword_score = 3
    /\ Len(analysis.factors) = 2

-----------------------------------------------------------------------------
(* Properties of the chat client, checked under SpecClient *)

\* the try block of the frame that made create() call i raised
Failed(i) == upstream[i].kind = "raise" \/ build_raises(upstream[i], req_stream)

\* C1: a non-streaming chat_completion of an initialized client retries a
\* failed gpt-4 call exactly once, against gpt-35-turbo with the same
\* messages; it returns the retry's response or propagates the retry's
\* failure; a failed call for another model is not retried; so one request
\* makes at most two create() calls and every frame ends.
C1_FallbackOnce ==
    (mode = "completion" /\ initialized /\ ~req_stream) =>
        LET n == Len(attempts)
        IN  /\ n <= 2
            /\ \A i \in 1..n : attempts[i].messages = req_messages
            /\ (n >= 1) => (attempts[1].model = (IF req_model = "gpt-4" THEN "gpt-4"
                                                 ELSE "gpt-35-turbo"))
            /\ (n = 2) => (req_model = "gpt-4" /\ Failed(1)
                           /\ attempts[2].model = "gpt-35-turbo")
            /\ (cpc = "entered") => (n <= 1 /\ (n = 1 => Failed(1)))
            /\ (cpc \in {"returned", "raised"}) =>
                  /\ n >= 1
                  /\ (req_model = "gpt-4" /\ Failed(1)) => (n = 2)
            /\ (cpc = "returned") =>
                  /\ ~Failed(n)
                  /\ result[1].content = upstream[n].choices[1].content
                  /\ result[1].model = (IF n = 2 THEN "gpt-35-turbo" ELSE req_model)
            /\ (cpc = "raised") =>
                  /\ Failed(n)
                  /\ result[1].kind = "raise"

C1_Witness ==
    /\ mode = "completion" /\ initialized /\ ~req_stream
    /\ cpc = "returned"
    /\ req_model = "gpt-4"
    /\ Len(attempts) = 2
    /\ upstream[1].kind = "raise"
    /\ result[1].model = "gpt-35-turbo"
    /\ result[1].content = "answer A"

\* C2: in streaming mode a failed create() call for gpt-4 is retried once
\* against gpt-35-turbo before the failure reaches the consumer.
C2_StreamFallback ==
    (mode = "stream" /\ initialized /\ cpc = "stream_done"
       /\ req_model = "gpt-4" /\ upstream[1].kind = "raise") =>
        /\ Len(attempts) = 2
        /\ attempts[2].model = "gpt-35-turbo"

LowKeywords == {"hi", "hello", "thanks", "yes", "no", "ok", "bye"}

IsHighFactor(f) == MatchAt(f, "High complexity keywords: ", 1)

\* C11: when the query, trimmed and lowercased, equals a low keyword,
\* keyword_score is 0 and the factor "Simple greeting/response" is present
\* once, after every high or medium keyword factor; when it does not equal a
\* low keyword (containing one is not enough) that factor is absent.
C11_LowOverride ==
    HasAnalysis =>
        LET t == Lower(Strip(query))
            fs == analysis.factors
            simple == {i \in 1..Len(fs) : fs[i] = "Simple greeting/response"}
            kwf == {i \in 1..Len(fs) :
                       \/ IsHighFactor(fs[i])
                       \/ fs[i] = "Medium complexity keywords detected"}
        IN  IF t \in LowKeywords
            THEN /\ analysis.keyword_score = 0
                 /\ Cardinality(simple) = 1
                 /\ \A i \in simple : \A j \in kwf : j < i
            ELSE simple = {}

C11_Witness ==
    /\ opc = "analyze_returned"
    /\ query = "  OK  "
    /\ analysis.keyword_score = 0
    /\ analysis.factors = <<"Simple greeting/response">>

StructureFactorTexts ==
    {"Contains code or technical content", "Multiple questions detected",
     "Structured list/steps detected"}

Occurrences(fs, f) == Cardinality({i \in 1..Len(fs) : fs[i] = f})

\* C12: structure_score is 2 when a code pattern occurs in the query as
\* written (once, however many patterns match), plus 1 when the query has more
\* than 2 question marks, plus 1 when digits, a period and whitespace occur in
\* a row; it lies in 0..4 and each signal that fired added exactly one factor.
C12_StructureScore ==
    HasAnalysis =>
        LET code == code_patterns(query)
            questions == Count(query, "?") > 2
            numbered == ReNumberedList(query)
            B(b) == IF b THEN 1 ELSE 0
            fs == analysis.factors
        IN  /\ analysis.structure_score = 2 * B(code) + B(questions) + B(numbered)
            /\ analysis.structure_score \in 0..4
            /\ Occurrences(fs, "Contains code or technical content") = B(code)
            /\ Occurrences(fs, "Multiple questions detected") = B(questions)
            /\ Occurrences(fs, "Structured list/steps detected") = B(numbered)

C12_Witness ==
    /\ opc = "analyze_returned"
    /\ query = "design: 1. def f(x) => ???"
    /\ analysis.structure_score = 4
    /\ Cardinality({i \in 1..Len(analysis.factors) :
                       analysis.factors[i] \in StructureFactorTexts}) = 3

\* the signal a factor text reports: 1 length, 2 high, 3 medium, 4 low
\* override, 5 code, 6 multiple questions, 7 numbered list; 0 for any other text
KindOf(f) ==
    IF f \in LengthFactorTexts THEN 1
    ELSE IF IsHighFactor(f) THEN 2
    ELSE IF f = "Medium complexity keywords detected" THEN 3
    ELSE IF f = "Simple greeting/response" THEN 4
    ELSE IF f = "Contains code or technical content" THEN 5
    ELSE IF f = "Multiple questions detected" THEN 6
    ELSE IF f = "Structured list/steps detected" THEN 7
    ELSE 0

\* whether signal k fires on query q, read off the query
Fired(q, k) ==
    CASE k = 1 -> Len(q) > 200
      [] k = 2 -> AnyKeyword("high", Lower(q))
      [] k = 3 -> AnyKeyword("medium", Lower(q))
      [] k = 4 -> Strip(Lower(q)) \in LowKeywords
      [] k = 5 -> code_patterns(q)
      [] k = 6 -> Count(q, "?") > 2
      [] k = 7 -> ReNumberedList(q)

\* C13: the factors of an analysis are, in this order, the length factor, the
\* high, medium and low-override keyword factors, and the code, multiple
\* questions and numbered-list factors; each is present once when its signal
\* fired and absent otherwise.
C13_FactorOrder ==
    HasAnalysis =>
        LET fs == analysis.factors
            FiredHere(k) == Fired(query, k)
        IN  [i \in 1..Len(fs) |-> KindOf(fs[i])] = SelectSeq(<<1, 2, 3, 4, 5, 6, 7>>, FiredHere)

C13_Witness ==
    /\ opc = "analyze_returned"
    /\ Len(query) = 501
    /\ analysis.factors = <<"Long query (>500 chars)",
                            "Medium complexity keywords detected",
                            "Contains code or technical content">>

AnalysisFields ==
    {"length_score", "keyword_score", "structure_score", "total_score", "factors",
     "recommended_model"}

\* C14: a call of analyze_query returns for every query text, its only
\* outcome being a record holding the four scores and the factors; for the
\* empty string the four scores are 0 and the factors list is empty.
C14_Returned ==
    (opc = "analyze_returned") =>
        /\ AnalysisFields \subseteq DOMAIN analysis
        /\ Scores(analysis) \in Nat \X Nat \X Nat \X Nat
        /\ (query = "") =>
               /\ Scores(analysis) = <<0, 0, 0, 0>>
               /\ analysis.factors = <<>>

C14_TotalAndEmpty ==
    /\ []C14_Returned
    /\ [][(opc = "call_analyze_query") =>
              /\ opc' = "analyze_returned"
              /\ query' = query
              /\ AnalysisFields \subseteq DOMAIN analysis']_vars

C14_Witness ==
    /\ opc = "analyze_returned"
    /\ query = ""
    /\ analysis.total_score = 0
    /\ analysis.factors = <<>>

\* C15: when a high keyword matches, the one high-keyword factor names the
\* matched high keywords in lexicon order, joined by ", ", and only the first 3
\* of them when more match; with no match there is no such factor.
C15_HighFactorNames ==
    HasAnalysis =>
        LET lex == COMPLEXITY_KEYWORDS.high
            ql == Lower(query)
            S == {i \in 1..Len(lex) : Contains(ql, lex[i])}
            kth(k) == CHOOSE i \in S : Cardinality({j \in S : j < i}) = k - 1
            names == [k \in 1..Min(Cardinality(S), 3) |-> lex[kth(k)]]
            fs == analysis.factors
            hf == {i \in 1..Len(fs) : IsHighFactor(fs[i])}
        IN  IF S = {} THEN hf = {}
            ELSE /\ Cardinality(hf) = 1
                 /\ \A i \in hf : fs[i] = "High complexity keywords: " \o Join(names, ", ")

C15_Witness ==
    /\ opc = "analyze_returned"
    /\ query = "optimize, design, evaluate and analyze"
    /\ analysis.factors = <<"High complexity keywords: analyze, evaluate, design">>

\* C20: the record analyze_query returns, alone or inside select_model, has
\* recommended_model unset and no selection_reason or was_auto_selected key;
\* once select_model has returned, on either path, all three are set, and
\* recommended_model is the returned model id.
C20_SelectionFields ==
    /\ (opc \in {"analyze_returned", "select_analyzed"}) =>
           /\ analysis.recommended_model = None
           /\ "selection_reason" \notin DOMAIN analysis
           /\ "was_auto_selected" \notin DOMAIN analysis
    /\ (opc = "select_returned") =>
           /\ {"selection_reason", "was_auto_selected"} \subseteq DOMAIN analysis
           /\ analysis.recommended_model # None
           /\ analysis.recommended_model = selected
           /\ analysis.selection_reason # ""
           /\ analysis.was_auto_selected \in BOOLEAN

C20_Witness ==
    /\ opc = "select_returned"
    /\ preferred_model = Some("gpt-4")
    /\ analysis.recommended_model = Some("gpt-4")
    /\ analysis.selection_reason = "User specified model"
    /\ analysis.was_auto_selected = FALSE

-----------------------------------------------------------------------------
(* Properties of sequences of orchestrator calls, checked under SpecCalls *)

\* C16: a call of get_model_config always returns: the descriptor of the
\* model id when the id is in the registry, the gpt-35-turbo descriptor for
\* every other id.
C16_Returned ==
    (opc = "get_model_config_returned") =>
        LET model_id == aux_arg[1]
        IN  aux_ret = Some(IF model_id \in {"gpt-4", "gpt-35-turbo"}
                           THEN MODEL_CONFIGS[model_id]
                           ELSE MODEL_CONFIGS["gpt-35-turbo"])

C16_GetModelConfig ==
    /\ []C16_Returned
    /\ [][(opc = "call_get_model_config") =>
              /\ opc' = "get_model_config_returned"
              /\ aux_arg' = aux_arg
              /\ aux_ret' # None]_vars

C16_Witness ==
    /\ opc = "get_model_config_returned"
    /\ aux_arg = Some("not-a-real-model")
    /\ aux_ret[1].deployment_name = "gpt-35-turbo"
    /\ aux_ret[1].max_tokens = 4096

\* C17: a call of analyze_query or select_model returns the model id and the
\* analysis record that an earlier call of the same operation with the same
\* query and preferred model returned, whatever calls were made in between.
C17_Deterministic ==
    (/\ memo # None
     /\ opc \in {"analyze_returned", "select_returned"}
     /\ memo[1].op = opc
     /\ memo[1].query = query
     /\ memo[1].preferred_model = preferred_model) =>
        /\ analysis = memo[1].analysis
        /\ selected = memo[1].selected

C17_Witness ==
    /\ memo # None
    /\ opc = "select_returned"
    /\ memo[1].op = "select_returned"
    /\ memo[1].query = query
    /\ memo[1].preferred_model = preferred_model
    /\ query = "design: 1. def f(x) => ???"
    /\ preferred_model = Some("not-a-real-model")
    /\ selected = Some("gpt-4")
    /\ analysis = memo[1].analysis

\* C18: after any sequence of calls of the five operations the registry and
\* the lexicon hold the entries they held at process start; no step of a call
\* changes either, nor the record a finished call returned.
C18_State ==
    /\ models = MODEL_CONFIGS
    /\ complexity_keywords = COMPLEXITY_KEYWORDS

C18_Frame ==
    /\ []C18_State
    /\ [][/\ models' = models
          /\ complexity_keywords' = complexity_keywords
          /\ (memo # None) => (memo' = memo)]_vars

C18_Witness ==
    /\ memo # None
    /\ memo[1].op = "select_returned"
    /\ opc = "get_model_config_returned"
    /\ aux_arg = Some("")
    /\ models = MODEL_CONFIGS
    /\ complexity_keywords = COMPLEXITY_KEYWORDS

-----------------------------------------------------------------------------
(* Properties of concurrent callers, checked under SpecConcurrent *)

\* C19: under every interleaving of the callers, a caller whose select_model
\* has returned holds the model id and the analysis record that select_model
\* returns for its own query and preferred model when called alone.
C19_ConcurrentCallers ==
    \A c \in Callers :
        (tasks[c].pc = "returned") =>
            /\ tasks[c].ret = Some(select_model(tasks[c].query, tasks[c].preferred_model))
            /\ TaskAnalysis(c) = select_model(tasks[c].query, tasks[c].preferred_model)[2]

C19_Witness ==
    /\ \A c \in Callers : tasks[c].pc = "returned"
    /\ tasks[1].query = "analyze and summarize"
    /\ tasks[1].preferred_model = None
    /\ tasks[2].query = "a? b? c? 1. x"
    /\ tasks[2].preferred_model = Some("gpt-4")
    /\ tasks[1].ret[1][1] = "gpt-35-turbo"
    /\ tasks[1].ret[1][2].factors # tasks[2].ret[1][2].factors

-----------------------------------------------------------------------------
(* Further properties of the orchestrator, checked under SpecOrchestrator *)

\* C28: for every query and preferred model, the model id select_model
\* returns is a key of the registry and is the recommended_model of the
\* analysis record returned with it.
C28_SelectedInRegistry ==
    (opc = "select_returned") =>
        /\ selected # None
        /\ selected[1] \in DOMAIN MODEL_CONFIGS
        /\ analysis.recommended_model = Some(selected[1])

C28_Witness ==
    /\ opc = "select_returned"
    /\ query = "hi"
    /\ preferred_model = Some("not-a-real-model")
    /\ selected = Some("gpt-35-turbo")
    /\ analysis.recommended_model = Some("gpt-35-turbo")

-----------------------------------------------------------------------------
(* Properties of the request handlers, checked under SpecService *)

\* C21: the model-detail endpoint answers 404 "Model not found" for a
\* model_id that is not in the registry.
C21_UnknownModel404 ==
    (hpc = "get_model_replied" /\ request.model_id \notin DOMAIN MODEL_CONFIGS) =>
        /\ reply[1].status = 404
        /\ reply[1].detail = "Model not found"

\* C22: the message list process_chat sends upstream is the system message
\* followed by the last 10 (or fewer) messages of the session in timestamp
\* order, the last of them being the user message of this request, whatever
\* the number of messages the session holds.
C22_ContextEndsWithRequest ==
    (hpc = "chat_upstream") =>
        LET rows == session_rows(session[1])
        IN  /\ req_messages = <<Msg("system", SYSTEM_PROMPT)>> \o context_of(rows)
            /\ Len(req_messages) <= ContextWindow + 1
            /\ req_messages[Len(req_messages)] = Msg("user", request.message)

\* the title of the session the handler works on, before and after a step
SessionTitle == db_sessions[session[1]].title

\* C23: process_chat sets the title of the session to the first 50 characters
\* of the request message, followed by "..." when the message is longer,
\* exactly when the session holds at most 2 messages after the exchange;
\* otherwise the exchange leaves the title as it was.
C23_TitleOnFirstExchange ==
    [][(hpc = "chat_assistant_saved") =>
          LET message == request.message
              short == SubSeq(message, 1, IF Len(message) < 50 THEN Len(message) ELSE 50)
              title == IF Len(message) > 50 THEN short \o "..." ELSE short
              held == Cardinality({i \in 1..Len(db_messages) :
                                      db_messages[i].session_id = session[1]})
          IN  /\ hpc' = "chat_replied"
              /\ db_sessions'[session[1]].title = IF held <= 2 THEN title ELSE SessionTitle
              /\ \A k \in DOMAIN db_sessions \ {session[1]} : db_sessions'[k] = db_sessions[k]
              /\ DOMAIN db_sessions' = DOMAIN db_sessions]_vars

C23_Witness ==
    /\ hpc = "chat_replied"
    /\ reply[1].status = 200
    /\ session = Some("s1")
    /\ Len(db_messages) = 2
    /\ Len(request.message) > 50
    /\ SessionTitle = "analyze and compare the two designs, then summariz..."

LastRow == db_messages[Len(db_messages)]

UserRow == Row(session[1], "user", request.message, None)

\* the title the session had before the request: that of the stored session,
\* or the default of a session the request created
TitleAtStart == IF session[1] = "s1" THEN "Earlier chat" ELSE "New Chat"

\* C24, in a state: no upstream call is made before the user message is
\* saved; from then until a response is in hand the user message is the last
\* row; after a failed upstream call it still is, and the title is the one
\* the session started with; after a success the last two rows are the user
\* message and the assistant message, in that order.
C24_State ==
    /\ (hpc \in {"chat_entered", "chat_selecting"}) => (cpc = "idle" /\ attempts = <<>>)
    /\ (hpc \in {"chat_user_saved", "chat_upstream"}) => (LastRow = UserRow)
    /\ (hpc = "chat_replied" /\ reply[1].status = 500) =>
           /\ cpc = "raised"
           /\ LastRow = UserRow
           /\ db_sessions[session[1]].title = TitleAtStart
    /\ (hpc = "chat_replied" /\ reply[1].status = 200) =>
           /\ LastRow.role = "assistant"
           /\ LastRow.session_id = session[1]
           /\ LastRow.content = result[1].content
           /\ db_messages[Len(db_messages) - 1] = UserRow

\* C24, in a step of process_chat: the only steps that change the messages
\* are the save of the user message, which appends it, and the save of the
\* assistant message, which is taken only when the upstream call has returned
\* a response and appends one assistant row.
C24_Step ==
    (hpc \in {"chat_entered", "chat_selecting", "chat_user_saved", "chat_upstream",
              "chat_assistant_saved"}) =>
        IF hpc' = "chat_user_saved" /\ hpc # "chat_user_saved"
        THEN db_messages' = Append(db_messages, UserRow)
        ELSE IF hpc' = "chat_assistant_saved" /\ hpc # "chat_assistant_saved"
        THEN /\ cpc = "returned"
             /\ Len(db_messages') = Len(db_messages) + 1
             /\ SubSeq(db_messages', 1, Len(db_messages)) = db_messages
             /\ db_messages'[Len(db_messages')].role = "assistant"
        ELSE db_messages' = db_messages

\* C24: process_chat commits the user message before the upstream call and
\* the assistant message only after a response; a failed upstream call leaves
\* the user message, no assistant message and the title as it was; a success
\* adds exactly one user and one assistant message, in that order.
C24_PersistOrder == []C24_State /\ [][C24_Step]_vars

C24_Witness ==
    /\ hpc = "chat_replied"
    /\ reply[1].status = 500
    /\ Len(attempts) = 2
    /\ attempts[1].model = "gpt-4"
    /\ attempts[2].model = "gpt-35-turbo"
    /\ session = Some("new1")
    /\ db_messages = <<Row("new1", "user", "hi", None)>>
    /\ db_sessions["new1"].title = "New Chat"

\* C25: the model_used stored on the assistant message is the model whose
\* upstream call produced the response; it is the model_selected of the result
\* unless the gpt-4 call failed and the gpt-35-turbo retry succeeded, and then
\* it is gpt-35-turbo while model_selected and analysis.recommended_model are
\* gpt-4.
C25_ModelUsed ==
    (hpc = "chat_replied" /\ reply[1].status = 200) =>
        LET used == LastRow.model_used
            retried == Len(attempts) > 1
        IN  /\ used # None
            /\ reply[1].message.model_used = used
            /\ initialized =>
                   attempts[Len(attempts)].model = MODEL_CONFIGS[used[1]].deployment_name
            /\ IF retried
               THEN /\ used = Some("gpt-35-turbo")
                    /\ attempts[1].model = MODEL_CONFIGS["gpt-4"].deployment_name
                    /\ reply[1].model_selected = "gpt-4"
                    /\ reply[1].analysis.recommended_model = Some("gpt-4")
               ELSE used = Some(reply[1].model_selected)

C25_Witness ==
    /\ hpc = "chat_replied"
    /\ reply[1].status = 200
    /\ Len(attempts) = 2
    /\ upstream[1].kind = "raise"
    /\ reply[1].model_selected = "gpt-4"
    /\ LastRow.model_used = Some("gpt-35-turbo")
    /\ LastRow.content = "answer A"

\* C26: every response stream of /api/chat/stream is one 'meta' event, then
\* the 'chunk' events, then one 'done' event, with the assistant message
\* saved before 'done'; also for a request whose session_id names no session.
C26_StreamEvents ==
    (hpc = "stream_replied") =>
        /\ Len(events) >= 2
        /\ events[1].type = "meta"
        /\ events[Len(events)].type = "done"
        /\ \A i \in 2..(Len(events) - 1) : events[i].type = "chunk"
        /\ db_messages # <<>>
        /\ LastRow.role = "assistant"
        /\ LastRow.content = full_response

\* the upstream call of the stream in progress failed: create() raised, or the
\* stream it gave raised
StreamFailed ==
    /\ upstream # <<>>
    /\ \/ upstream[1].kind = "raise"
       \/ upstream[1].kind = "stream" /\ upstream[1].error # None

\* the text of that failure, and the text yielded before it
StreamErrorText ==
    IF upstream[1].kind = "raise" THEN upstream[1].error ELSE upstream[1].error[1]

StreamTextBefore ==
    IF upstream[1].kind = "raise" THEN "" ELSE Join(upstream[1].deltas, "")

\* C27: a failure of the upstream call never leaves chat_completion_stream as
\* an exception; the generator ends after one last chunk "Error: <message>",
\* and chat_stream stores the text received, that chunk included, as an
\* assistant message whose model_used is the selected model.
C27_StreamError ==
    /\ (hpc \in {"streaming", "stream_saved", "stream_replied"}) => (cpc # "raised")
    /\ (hpc \in {"stream_saved", "stream_replied"} /\ session # None /\ StreamFailed) =>
           /\ cpc = "stream_done"
           /\ Len(attempts) = 1
           /\ chunks[Len(chunks)] = "Error: " \o StreamErrorText
           /\ \A i \in 1..(Len(chunks) - 1) : ~MatchAt(chunks[i], "Error: ", 1)
           /\ full_response = StreamTextBefore \o "Error: " \o StreamErrorText
           /\ LastRow = Row(session[1], "assistant", full_response, Some(selected[1]))

C27_Witness ==
    /\ hpc = "stream_replied"
    /\ session = Some("s1")
    /\ upstream = <<Stream(<<"Hel">>, Some("reset"))>>
    /\ selected = Some("gpt-4")
    /\ LastRow = Row("s1", "assistant", "HelError: reset", Some("gpt-4"))
    /\ events[Len(events)].type = "done"

====
